---- MODULE Spec2Model ----
(***************************************************************************)
(* Car Navigation System (src/app.py): the Streamlit session state, the    *)
(* script run that every user interaction triggers, and the pure helpers   *)
(* format_duration and the path downsampling of                            *)
(* get_fuel_stations_along_route.                                          *)
(*                                                                         *)
(* One action is one user interaction: the widget change, followed by the  *)
(* complete run of main() that Streamlit performs for it (a run that calls *)
(* st.rerun() is followed by the run it asks for).                         *)
(*                                                                         *)
(* Python strings that are built or compared are sequences of one-character*)
(* strings; names that are only passed around stay TLA+ strings.           *)
(***************************************************************************)
EXTENDS Integers, Sequences, FiniteSets, TLC

\* ------------------------------------------------------------------ bounds
MaxWaypoints == 1
MaxRoutes == 2
MaxSeconds == 7325
MaxPathLen == 120
MaxFormWaypoints == 3

\* ------------------------------------------------------- program constants
MAX_QUERY_POINTS == 50

\* A missing dictionary key / Python None for a number.
Absent == -1
\* float('inf'), the sort key of a route without a duration.
Inf == 1000000

\* ----------------------------------------------------------- input domains
\* What the user can have typed in the two location fields (the defaults are
\* the config fallbacks) and in the new-destination field.
StartInputs == {"", "Tokyo Station"}
EndInputs == {"", "Shibuya Crossing"}
DestInputs == {"", "Kyoto"}
\* The new-destination field where only the waypoint form is exercised.
FormInputs == {"", "Kyoto", "Nara", "Osaka"}
\* The number inputs of coordinate mode hold the config fallbacks.
StartLonLat == <<139, 35>>
EndLonLat == <<140, 36>>
\* What the routing service can report for one route.
RouteDurations == {100, 300}
RouteDistances == {1200}
\* How the geocoding service answers one request.
GeoResponses == {"found", "empty", "malformed", "error"}

VARIABLES
    routes,                     \* st.session_state.routes
    selected_route_index,       \* st.session_state.selected_route_index (0-based)
    destinations,               \* st.session_state.destinations
    show_add_destination_input, \* st.session_state.show_add_destination_input
    all_places,                 \* st.session_state.all_places, <<>> while not set
    all_coords,                 \* st.session_state.all_coords, <<>> while not set
    input_method,               \* value of the "Input Method:" radio
    route_radio,                \* the "Choose a route:" radio as the browser shows it
    geocode_requests,           \* requests to Nominatim during the last run
    route_requests,             \* requests to OSRM during the last run, with the answer
    messages,                   \* st.error / st.warning texts of the last run
    points,                     \* decoded route path handed to the POI client
    query_points,               \* the points the POI query is built from
    seconds,                    \* argument of format_duration
    duration_str                \* result of format_duration

vars == <<routes, selected_route_index, destinations, show_add_destination_input,
          all_places, all_coords, input_method, route_radio, geocode_requests,
          route_requests, messages, points, query_points, seconds,
          duration_str>>

sessionVars == <<routes, selected_route_index, destinations,
                 show_add_destination_input, all_places, all_coords, input_method,
                 route_radio, geocode_requests, route_requests, messages>>

\* ------------------------------------------------------------ format_duration
\* str(int(n)) for n >= 0
RECURSIVE IntStr(_)
IntStr(n) ==
    LET digit == <<"0", "1", "2", "3", "4", "5", "6", "7", "8", "9">>[(n % 10) + 1]
    IN  IF n < 10 THEN <<digit>> ELSE Append(IntStr(n \div 10), digit)

\* str.strip(): leading and trailing blanks removed
RECURSIVE LStrip(_)
LStrip(s) == IF s # <<>> /\ Head(s) = " " THEN LStrip(Tail(s)) ELSE s

RECURSIVE RStrip(_)
RStrip(s) ==
    IF s # <<>> /\ s[Len(s)] = " " THEN RStrip(SubSeq(s, 1, Len(s) - 1)) ELSE s

Strip(s) == RStrip(LStrip(s))

\* format_duration without the final strip().
format_duration_nostrip(secs) ==
    IF secs = Absent \/ secs = 0 THEN <<"0", "s">>
    ELSE LET minutes0 == secs \div 60
             s        == secs % 60
             hours    == minutes0 \div 60
             minutes  == minutes0 % 60
             d1 == IF hours > 0 THEN IntStr(hours) \o <<"h", " ">> ELSE <<>>
             d2 == d1 \o (IF minutes > 0 THEN IntStr(minutes) \o <<"m", " ">> ELSE <<>>)
             d3 == d2 \o (IF s > 0 \/ d2 = <<>> THEN IntStr(s) \o <<"s">> ELSE <<>>)
         IN  d3

\* format_duration(seconds); an absent value is None.
format_duration(secs) ==
    IF secs = Absent \/ secs = 0 THEN <<"0", "s">>
    ELSE LET minutes0 == secs \div 60
             s        == secs % 60
             hours    == minutes0 \div 60
             minutes  == minutes0 % 60
             d1 == IF hours > 0 THEN IntStr(hours) \o <<"h", " ">> ELSE <<>>
             d2 == d1 \o (IF minutes > 0 THEN IntStr(minutes) \o <<"m", " ">> ELSE <<>>)
             d3 == d2 \o (IF s > 0 \/ d2 = <<>> THEN IntStr(s) \o <<"s">> ELSE <<>>)
         IN  Strip(d3)

\* ------------------------------------------------------------ path downsampling
\* points[::step]: the elements at 0-based positions 0, step, 2*step, ...
Stride(pts, step) ==
    [k \in 1..((Len(pts) + step - 1) \div step) |-> pts[(k - 1) * step + 1]]

\* "if len(points) > MAX_QUERY_POINTS: step = len // MAX; points = points[::step]"
SamplePoints(pts) ==
    IF Len(pts) > MAX_QUERY_POINTS
    THEN Stride(pts, Len(pts) \div MAX_QUERY_POINTS)
    ELSE pts

\* ------------------------------------------------------------ geocoding client
\* Nominatim's first candidate for a place: <<lat, lon>>.
Nominatim(place_name) ==
    CASE place_name = "Tokyo Station"    -> <<35, 139>>
      [] place_name = "Shibuya Crossing" -> <<36, 140>>
      [] place_name = "Kyoto"            -> <<34, 135>>
      [] place_name = "Nara"             -> <<33, 136>>
      [] OTHER                           -> <<0, 0>>

\* get_coords under one answer of the service. found is "lat is not None and
\* lon is not None"; requests lists the HTTP requests made, each with whether
\* it produced coordinates.
get_coords(place_name, response) ==
    IF place_name = ""
    THEN [found |-> FALSE, lat |-> 0, lon |-> 0, requests |-> <<>>, msgs |-> {}]
    ELSE CASE response = "found" ->
                [found |-> TRUE, lat |-> Nominatim(place_name)[1],
                 lon |-> Nominatim(place_name)[2],
                 requests |-> <<[place |-> place_name, found |-> TRUE]>>,
                 msgs |-> {}]
           [] response = "empty" ->
                [found |-> FALSE, lat |-> 0, lon |-> 0,
                 requests |-> <<[place |-> place_name, found |-> FALSE]>>,
                 msgs |-> {}]
           [] response = "malformed" ->
                [found |-> FALSE, lat |-> 0, lon |-> 0,
                 requests |-> <<[place |-> place_name, found |-> FALSE]>>,
                 msgs |-> {"Could not find coordinates"}]
           [] OTHER ->
                [found |-> FALSE, lat |-> 0, lon |-> 0,
                 requests |-> <<[place |-> place_name, found |-> FALSE]>>,
                 msgs |-> {"Error calling Nominatim API"}]

\* places_to_geocode = [start_place] + destinations + [end_place]
PlacesToGeocode(start_place, dests, end_place) ==
    <<start_place>> \o dests \o <<end_place>>

\* The geocoding loop without its break: every place is looked up.
RECURSIVE GeocodeNoBreak(_, _, _, _)
GeocodeNoBreak(places, geo, i, acc) ==
    IF i > Len(places) THEN acc
    ELSE LET c == get_coords(places[i], geo[i])
         IN  IF c.found /\ acc.valid
             THEN GeocodeNoBreak(places, geo, i + 1,
                      [acc EXCEPT !.coords = Append(@, <<c.lon, c.lat>>),
                                  !.requests = @ \o c.requests,
                                  !.msgs = @ \cup c.msgs])
             ELSE GeocodeNoBreak(places, geo, i + 1,
                      [acc EXCEPT !.valid = FALSE,
                                  !.requests = @ \o c.requests,
                                  !.msgs = @ \cup c.msgs \cup {"Could not find place"}])

\* The loop over places_to_geocode from position i on: stops at the first
\* place that get_coords does not resolve.
RECURSIVE GeocodeLoop(_, _, _, _)
GeocodeLoop(places, geo, i, acc) ==
    IF i > Len(places) THEN acc
    ELSE LET c == get_coords(places[i], geo[i])
         IN  IF c.found
             THEN GeocodeLoop(places, geo, i + 1,
                      [acc EXCEPT !.coords = Append(@, <<c.lon, c.lat>>),
                                  !.requests = @ \o c.requests,
                                  !.msgs = @ \cup c.msgs])
             ELSE [acc EXCEPT !.valid = FALSE,
                              !.requests = @ \o c.requests,
                              !.msgs = @ \cup c.msgs \cup {"Could not find place"}]

\* The answers of the service to the requests of one submission over n places:
\* the first k requests are answered with a candidate, the next one is not.
GeoOutcomes(n) ==
    {[i \in 1..n |-> IF i <= k THEN "found" ELSE kind] :
        k \in 0..n, kind \in GeoResponses \ {"found"}}

\* all_coords after the name-mode branch ("if not valid_trip: all_coords = []"),
\* with what the loop requested and said, for every way the service can answer.
GeocodeAll(places) ==
    {LET g == GeocodeLoop(places, geo, 1,
                  [coords |-> <<>>, requests |-> <<>>, msgs |-> {}, valid |-> TRUE])
     IN  [g EXCEPT !.coords = IF g.valid THEN g.coords ELSE <<>>] :
        geo \in GeoOutcomes(Len(places))}

\* ------------------------------------------------------------ routing client
\* The route lists the service can return, in the service's order (pos).
ServiceRoutes(n) ==
    {[i \in 1..n |-> [pos |-> i, duration |-> d[i], distance |-> m[i]]] :
        d \in [1..n -> RouteDurations], m \in [1..n -> RouteDistances]}

\* Answers of OSRM: a transport/HTTP error, or a body whose route list is
\* missing or empty, or has routes (one route unless alternatives are asked).
OsrmResponses ==
    [alternatives \in BOOLEAN |->
        {[kind |-> "error", routes |-> <<>>], [kind |-> "ok", routes |-> <<>>]}
        \cup {[kind |-> "ok", routes |-> rs] :
                rs \in UNION {ServiceRoutes(n) :
                                n \in 1..(IF alternatives THEN MaxRoutes ELSE 1)}}]

\* get_route: the route list, <<>> for None; answer is what the service sent.
get_route(coords_list, alternatives, response) ==
    IF response.kind = "error"
    THEN [routes |-> <<>>, msgs |-> {"Error calling OSRM API"}, answer |-> response]
    ELSE [routes |-> response.routes, msgs |-> {}, answer |-> response]

\* key=lambda r: r.get('duration', float('inf'))
SortKey(r) == IF r.duration = Absent THEN Inf ELSE r.duration

\* Insertion that puts r before the elements of equal key.
InsertBeforeEqual(sorted, r) ==
    LET i == CHOOSE j \in 1..(Len(sorted) + 1) :
                 /\ \A k \in 1..(j - 1) : SortKey(sorted[k]) < SortKey(r)
                 /\ j <= Len(sorted) => SortKey(sorted[j]) >= SortKey(r)
    IN  SubSeq(sorted, 1, i - 1) \o <<r>> \o SubSeq(sorted, i, Len(sorted))

\* A sort that is ascending but reverses routes of equal duration.
RECURSIVE SortUnstable(_)
SortUnstable(rs) ==
    IF rs = <<>> THEN <<>>
    ELSE InsertBeforeEqual(SortUnstable(SubSeq(rs, 1, Len(rs) - 1)), rs[Len(rs)])

\* Insertion of r into a sorted list behind every element whose key is not greater.
InsertByKey(sorted, r) ==
    LET i == CHOOSE j \in 1..(Len(sorted) + 1) :
                 /\ \A k \in 1..(j - 1) : SortKey(sorted[k]) <= SortKey(r)
                 /\ j <= Len(sorted) => SortKey(sorted[j]) > SortKey(r)
    IN  SubSeq(sorted, 1, i - 1) \o <<r>> \o SubSeq(sorted, i, Len(sorted))

\* routes.sort(key=...): list.sort is a stable ascending sort.
RECURSIVE SortByDuration(_)
SortByDuration(rs) ==
    IF rs = <<>> THEN <<>>
    ELSE InsertByKey(SortByDuration(SubSeq(rs, 1, Len(rs) - 1)), rs[Len(rs)])

\* ------------------------------------------------------------ render step
\* {distance/1000:.1f}: kilometres rounded to one decimal, in tenths.
KmTenths(distance) == (distance + 50) \div 100

\* route_options: "Route {i+1}: {format_duration(duration)} ({km:.1f} km)"
\* format_duration of every duration a stored route can have, tabulated.
DurationLabel == [d \in RouteDurations \cup {Absent} |-> format_duration(d)]

RouteOptions(rts) ==
    [i \in 1..Len(rts) |->
        [number |-> i, duration |-> DurationLabel[rts[i].duration],
         km |-> KmTenths(rts[i].distance)]]

NoRadio == [shown |-> FALSE, index |-> 0, options |-> <<>>, value |-> 0]

\* st.radio("Choose a route:", options, index=sel) for a stored set of more
\* than one route. The widget has no key: it is the widget the browser shows
\* exactly when its options and its index argument are the same, and then it
\* returns the value the browser holds; a new widget returns options[index].
RouteRadio(rts, sel, shown) ==
    IF Len(rts) > 1
    THEN LET opts == RouteOptions(rts)
             same == shown.shown /\ shown.index = sel /\ shown.options = opts
         IN  [shown |-> TRUE, index |-> sel, options |-> opts,
              value |-> IF same THEN shown.value ELSE sel]
    ELSE NoRadio

\* "if st.session_state.routes:" up to the choice of selected_route.
Render(rts, sel, shown) ==
    LET r == RouteRadio(rts, sel, shown)
    IN  /\ route_radio' = r
        /\ selected_route_index' = IF r.shown THEN r.value ELSE sel

\* The else branch of the input method: destinations are cleared on every run
\* in coordinate mode.
DestinationsAfterRun(method, dests) ==
    IF method = "Coordinates" THEN <<>> ELSE dests

NoExternalCalls == geocode_requests' = <<>> /\ route_requests' = <<>>

pureVars == <<points, query_points, seconds, duration_str>>

\* ------------------------------------------------------------ user actions
\* A run triggered by a widget that changes nothing kept here (a checkbox, a
\* text or number field, the date and time pickers).
Rerun ==
    /\ destinations' = DestinationsAfterRun(input_method, destinations)
    /\ Render(routes, selected_route_index, route_radio)
    /\ NoExternalCalls
    /\ messages' = {}
    /\ UNCHANGED <<routes, show_add_destination_input, all_places, all_coords,
                   input_method, pureVars>>

\* The "Input Method:" radio is switched.
SetInputMethod(method) ==
    /\ method # input_method
    /\ input_method' = method
    /\ destinations' = DestinationsAfterRun(method, destinations)
    /\ Render(routes, selected_route_index, route_radio)
    /\ NoExternalCalls
    /\ messages' = {}
    /\ UNCHANGED <<routes, show_add_destination_input, all_places, all_coords,
                   pureVars>>

\* destinations.pop(i) for the 1-based position i.
Pop(dests, i) == SubSeq(dests, 1, i - 1) \o SubSeq(dests, i + 1, Len(dests))

\* The remove button of waypoint i: pop and st.rerun().
RemoveDestination(i) ==
    /\ input_method = "Place Name"
    /\ i \in 1..Len(destinations)
    /\ destinations' = Pop(destinations, i)
    /\ Render(routes, selected_route_index, route_radio)
    /\ NoExternalCalls
    /\ messages' = {}
    /\ UNCHANGED <<routes, show_add_destination_input, all_places, all_coords,
                   input_method, pureVars>>

\* The "Add Destination" button, shown while the input is hidden.
ClickAddDestination ==
    /\ input_method = "Place Name"
    /\ ~show_add_destination_input
    /\ show_add_destination_input' = TRUE
    /\ Render(routes, selected_route_index, route_radio)
    /\ NoExternalCalls
    /\ messages' = {}
    /\ UNCHANGED <<routes, destinations, all_places, all_coords, input_method,
                   pureVars>>

\* An "Add" that puts the entered name in front.
PrependDestination(dests, new_destination) == <<new_destination>> \o dests

\* st.session_state.destinations.append(new_destination)
AppendDestination(dests, new_destination) == Append(dests, new_destination)

\* The "Add" button of the shown input, with the text the field holds; the
\* waypoint list is kept to at most limit names.
ConfirmAddUpTo(new_destination, limit) ==
    /\ input_method = "Place Name"
    /\ show_add_destination_input
    /\ IF new_destination # ""
       THEN /\ Len(destinations) < limit
            /\ destinations' = AppendDestination(destinations, new_destination)
            /\ show_add_destination_input' = FALSE
            /\ messages' = {}
       ELSE /\ messages' = {"Please enter a destination."}
            /\ UNCHANGED <<destinations, show_add_destination_input>>
    /\ Render(routes, selected_route_index, route_radio)
    /\ NoExternalCalls
    /\ UNCHANGED <<routes, all_places, all_coords, input_method, pureVars>>

ConfirmAdd(new_destination) == ConfirmAddUpTo(new_destination, MaxWaypoints)

\* The "Cancel" button of the shown input.
CancelAdd ==
    /\ input_method = "Place Name"
    /\ show_add_destination_input
    /\ show_add_destination_input' = FALSE
    /\ Render(routes, selected_route_index, route_radio)
    /\ NoExternalCalls
    /\ messages' = {}
    /\ UNCHANGED <<routes, destinations, all_places, all_coords, input_method,
                   pureVars>>

\* The user picks option i of the shown route selector.
SelectRoute(i) ==
    /\ route_radio.shown
    /\ i \in 0..(Len(route_radio.options) - 1)
    /\ i # route_radio.value
    /\ destinations' = DestinationsAfterRun(input_method, destinations)
    /\ Render(routes, selected_route_index, [route_radio EXCEPT !.value = i])
    /\ NoExternalCalls
    /\ messages' = {}
    /\ UNCHANGED <<routes, show_add_destination_input, all_places, all_coords,
                   input_method, pureVars>>

\* A submission that keeps the selection it found.
KeepSelection(previous) == previous

\* st.session_state.selected_route_index = 0
ResetSelection(previous) == 0

\* A failed routing step that keeps the routes it found.
KeepRoutes(previous) == previous

\* st.session_state.routes = [] when get_route found nothing
RoutesOnFailure(previous) == <<>>

\* "if len(all_coords) >= 2:" to the end of the script, for the coordinates
\* the submission resolved and the messages it has shown so far.
Submit(coords, said) ==
    IF Len(coords) >= 2
    THEN \E found \in UNION {{get_route(coords, alternatives, response) :
                                    response \in OsrmResponses[alternatives]} :
                                alternatives \in BOOLEAN} :
                /\ route_requests' = <<[coords |-> coords, answer |-> found.answer]>>
                /\ IF found.routes # <<>>
                   THEN /\ routes' = SortByDuration(found.routes)
                        /\ all_coords' = coords
                        /\ messages' = said \cup found.msgs
                        /\ Render(routes', ResetSelection(selected_route_index),
                                  route_radio)
                   ELSE /\ routes' = RoutesOnFailure(routes)
                        /\ all_coords' = all_coords
                        /\ messages' = said \cup found.msgs \cup {"No routes found."}
                        /\ Render(routes', selected_route_index, route_radio)
    ELSE /\ route_requests' = <<>>
         /\ messages' = said \cup {"Please provide at least a start and end location."}
         /\ UNCHANGED <<routes, all_coords>>
         /\ Render(routes, selected_route_index, route_radio)

\* "Get Route" in place-name mode, with the texts of the two location fields.
GetRouteByName(start_place, end_place) ==
    /\ input_method = "Place Name"
    /\ LET places_to_geocode == PlacesToGeocode(start_place, destinations, end_place)
       IN  \E g \in GeocodeAll(places_to_geocode) :
               /\ all_places' = places_to_geocode
               /\ geocode_requests' = g.requests
               /\ Submit(g.coords, g.msgs)
    /\ UNCHANGED <<destinations, show_add_destination_input, input_method, pureVars>>

\* "Get Route" in coordinate mode.
GetRouteByCoordinates ==
    /\ input_method = "Coordinates"
    /\ destinations' = DestinationsAfterRun(input_method, destinations)
    /\ all_places' = <<"Start", "End">>
    /\ geocode_requests' = <<>>
    /\ Submit(<<StartLonLat, EndLonLat>>, {})
    /\ UNCHANGED <<show_add_destination_input, input_method, pureVars>>

\* ------------------------------------------------------------ specification
InitPure ==
    /\ points = <<>>
    /\ query_points = <<>>
    /\ seconds = 0
    /\ duration_str = <<>>

InitSession ==
    /\ routes = <<>>
    /\ selected_route_index = 0
    /\ destinations = <<>>
    /\ show_add_destination_input = FALSE
    /\ all_places = <<>>
    /\ all_coords = <<>>
    /\ input_method = "Place Name"
    /\ route_radio = NoRadio
    /\ geocode_requests = <<>>
    /\ route_requests = <<>>
    /\ messages = {}

Init == InitSession /\ InitPure

Next ==
    \/ Rerun
    \/ \E method \in {"Place Name", "Coordinates"} : SetInputMethod(method)
    \/ \E i \in 1..MaxWaypoints : RemoveDestination(i)
    \/ ClickAddDestination
    \/ \E new_destination \in DestInputs : ConfirmAdd(new_destination)
    \/ CancelAdd
    \/ \E i \in 0..(MaxRoutes - 1) : SelectRoute(i)
    \/ \E start_place \in StartInputs, end_place \in EndInputs :
           GetRouteByName(start_place, end_place)
    \/ GetRouteByCoordinates

Spec == Init /\ [][Next]_vars

\* ------------------------------------------------------------ waypoint form alone
\* The session before any trip is submitted, with more waypoint names and
\* longer waypoint lists.
NextForm ==
    \/ Rerun
    \/ \E method \in {"Place Name", "Coordinates"} : SetInputMethod(method)
    \/ \E i \in 1..MaxFormWaypoints : RemoveDestination(i)
    \/ ClickAddDestination
    \/ \E new_destination \in FormInputs :
           ConfirmAddUpTo(new_destination, MaxFormWaypoints)
    \/ CancelAdd

SpecForm == Init /\ [][NextForm]_vars

\* ------------------------------------------------------------ format_duration alone
\* format_duration is applied to every number of seconds up to MaxSeconds and
\* to an absent value.
InitDuration ==
    /\ InitSession
    /\ points = <<>>
    /\ query_points = <<>>
    /\ seconds \in (0..MaxSeconds) \cup {Absent}
    /\ duration_str = <<>>

FormatDuration ==
    /\ duration_str = <<>>
    /\ duration_str' = format_duration(seconds)
    /\ UNCHANGED <<sessionVars, points, query_points, seconds>>

SpecDuration == InitDuration /\ [][FormatDuration]_vars

\* ------------------------------------------------------------ POI client alone
\* polyline.decode(route_geometry): a path of n points, each point standing
\* for its position on the path.
DecodedPath(n) == [i \in 1..n |-> i]

\* How the Overpass request ends.
PoiOutcomes == {"ok", "gateway timeout", "http error", "network error"}

InitFuel ==
    /\ InitSession
    /\ points \in {DecodedPath(n) : n \in 0..MaxPathLen}
    /\ query_points = <<>>
    /\ seconds = 0
    /\ duration_str = <<>>

\* get_fuel_stations_along_route for the decoded path in points.
GetFuelStations(outcome) ==
    /\ query_points = <<>>
    /\ messages = {}
    /\ IF points = <<>>
       THEN /\ messages' = {"Route geometry is empty, cannot search for fuel stations."}
            /\ UNCHANGED query_points
       ELSE /\ query_points' = SamplePoints(points)
            /\ messages' =
                   CASE outcome = "ok" -> {"Found fuel stations"}
                     [] outcome = "gateway timeout" -> {"The map server is currently busy"}
                     [] outcome = "http error" -> {"Could not fetch fuel stations"}
                     [] OTHER -> {"Could not fetch fuel stations due to a network issue"}
    /\ UNCHANGED <<routes, selected_route_index, destinations,
                   show_add_destination_input, all_places, all_coords, input_method,
                   route_radio, geocode_requests, route_requests, points, seconds,
                   duration_str>>

NextFuel == \E outcome \in PoiOutcomes : GetFuelStations(outcome)

SpecFuel == InitFuel /\ [][NextFuel]_vars

\* ------------------------------------------------------------ properties
\* The last run was a "Get Route" run that reached the routing step.
RoutingAsked == route_requests # <<>>

\* ... and the routing client returned routes.
RoutingSucceeded ==
    /\ RoutingAsked
    /\ route_requests[1].answer.kind = "ok"
    /\ route_requests[1].answer.routes # <<>>

\* The last run was a place-name "Get Route" run whose geocoding failed.
GeocodingFailed == "Could not find place" \in messages

\* C1: whenever the stored Route set is non-empty, the selected route index is
\* a valid 0-based index into it, so routes[selected_route_index] is in range.
C1_SelectedIndexValid ==
    routes # <<>> =>
        /\ selected_route_index >= 0
        /\ selected_route_index < Len(routes)

\* A route other than the first is selected in a stored set of several routes.
C1_Witness ==
    /\ Len(routes) > 1
    /\ selected_route_index = Len(routes) - 1
    /\ all_places # <<>>

\* C2: a place-name submission whose geocoding fails issues no routing request,
\* leaves the stored Route set and the selected index as they were, and sends
\* no geocoding request after the place that failed.
C2_GeocodingFailureAborts ==
    [][GeocodingFailed' =>
          /\ route_requests' = <<>>
          /\ routes' = routes
          /\ selected_route_index' = selected_route_index
          /\ Len(geocode_requests') <= Len(all_places')
          /\ \A j \in 1..Len(geocode_requests') :
                /\ geocode_requests'[j].place = all_places'[j]
                /\ ~geocode_requests'[j].found => j = Len(geocode_requests')
          /\ \A i \in 1..Len(all_places') :
                all_places'[i] = "" => Len(geocode_requests') < i]_vars

\* The second of three places failed while a Route set with a selection other
\* than the first was stored.
C2_Witness ==
    /\ GeocodingFailed
    /\ Len(all_places) = 3
    /\ Len(geocode_requests) = 2
    /\ ~geocode_requests[2].found
    /\ Len(routes) > 1
    /\ selected_route_index > 0

\* C3: whenever a Get Route submission replaces the stored Route set with a
\* newly fetched one, the selected route index is 0 in the resulting state.
C3_SelectionResetOnNewRoutes ==
    [][RoutingSucceeded' => selected_route_index' = 0]_vars

\* C4: a submission that reaches the routing step and gets no routes (error, or
\* an empty or missing route list) leaves the stored Route set empty, shows no
\* route selector and reports that no route was found.
C4_RoutingFailureClears ==
    (RoutingAsked /\ ~RoutingSucceeded) =>
        /\ routes = <<>>
        /\ ~route_radio.shown
        /\ "No routes found." \in messages

\* Routing failed after an earlier submission had stored routes.
C4_Witness ==
    /\ RoutingAsked
    /\ ~RoutingSucceeded
    /\ all_coords # <<>>
    /\ "No routes found." \in messages

\* C5: a place-name submission with an empty start or end location is blocked
\* with a warning and makes no geocoding and no routing request.
C5_EmptyLocationNoExternalCall ==
    (/\ GeocodingFailed
     /\ all_places # <<>>
     /\ (all_places[1] = "" \/ all_places[Len(all_places)] = "")) =>
        /\ "Please provide at least a start and end location." \in messages
        /\ geocode_requests = <<>>
        /\ route_requests = <<>>

\* C6: the points put into the POI query are at most MAX_QUERY_POINTS.
C6_QueryWithinCap == Len(query_points) <= MAX_QUERY_POINTS

\* C7: after a successful submission the stored Route set is a permutation of
\* the routes the service returned, in non-decreasing order of the duration
\* key, routes of equal duration in the service's order; the first route has a
\* minimal duration.
C7_RoutesStableSorted ==
    RoutingSucceeded =>
        LET returned == route_requests[1].answer.routes
        IN  /\ Len(routes) = Len(returned)
            /\ \A i \in 1..Len(routes) :
                  /\ routes[i].pos \in 1..Len(returned)
                  /\ routes[i] = returned[routes[i].pos]
            /\ \A i, j \in 1..Len(routes) :
                  i < j =>
                     /\ routes[i].pos # routes[j].pos
                     /\ SortKey(routes[i]) <= SortKey(routes[j])
                     /\ SortKey(routes[i]) = SortKey(routes[j])
                            => routes[i].pos < routes[j].pos
            /\ \A i \in 1..Len(routes) : SortKey(routes[1]) <= SortKey(routes[i])

\* The service returned the slower route first.
C7_Witness ==
    /\ RoutingSucceeded
    /\ Len(routes) > 1
    /\ routes[1].pos # 1
    /\ SortKey(routes[1]) < SortKey(routes[2])

\* The parts "<H>h", "<M>m", "<S>s" of a duration, each present as C8 says.
DurationParts(secs) ==
    LET H == secs \div 3600
        M == (secs % 3600) \div 60
        S == secs % 60
    IN  (IF H >= 1 THEN <<IntStr(H) \o <<"h">>>> ELSE <<>>)
        \o (IF M >= 1 THEN <<IntStr(M) \o <<"m">>>> ELSE <<>>)
        \o (IF S > 0 THEN <<IntStr(S) \o <<"s">>>> ELSE <<>>)

RECURSIVE JoinWithSpace(_)
JoinWithSpace(parts) ==
    IF parts = <<>> THEN <<>>
    ELSE IF Len(parts) = 1 THEN parts[1]
    ELSE parts[1] \o <<" ">> \o JoinWithSpace(Tail(parts))

\* C8: format_duration gives "0s" for 0 and for an absent value, and otherwise
\* the present parts joined by single spaces, with no leading or trailing space.
C8_FormatDuration ==
    duration_str # <<>> =>
        /\ (seconds = 0 \/ seconds = Absent) => duration_str = <<"0", "s">>
        /\ seconds > 0 =>
              /\ duration_str = JoinWithSpace(DurationParts(seconds))
              /\ duration_str[1] # " "
              /\ duration_str[Len(duration_str)] # " "
        /\ seconds = 3725 => duration_str = <<"1", "h", " ", "2", "m", " ", "5", "s">>
        /\ seconds = 65 => duration_str = <<"1", "m", " ", "5", "s">>
        /\ seconds = 45 => duration_str = <<"4", "5", "s">>
        /\ seconds = 3600 => duration_str = <<"1", "h">>

\* A whole number of hours has been formatted.
C8_Witness == seconds = 7200 /\ duration_str = <<"2", "h">>

\* C9 as stated: "Add Destination" opens the input, and both "Add" and
\* "Cancel" close it; "Add" appends the entered name, "Cancel" keeps the list.
C9_TwoStateForm ==
    [][/\ ClickAddDestination =>
             ~show_add_destination_input /\ show_add_destination_input'
       /\ \A name \in FormInputs :
             ConfirmAddUpTo(name, MaxFormWaypoints) =>
                /\ show_add_destination_input /\ ~show_add_destination_input'
                /\ destinations' = Append(destinations, name)
       /\ CancelAdd =>
             /\ show_add_destination_input /\ ~show_add_destination_input'
             /\ destinations' = destinations]_vars

\* C9 amended: "Add" closes the input and appends only for a non-empty name;
\* with an empty name it keeps the input open and the list unchanged and warns.
C9_TwoStateFormNonEmpty ==
    [][/\ ClickAddDestination =>
             ~show_add_destination_input /\ show_add_destination_input'
       /\ \A name \in FormInputs :
             ConfirmAddUpTo(name, MaxFormWaypoints) =>
                /\ show_add_destination_input
                /\ name # "" =>
                      /\ ~show_add_destination_input'
                      /\ destinations' = Append(destinations, name)
                /\ name = "" =>
                      /\ show_add_destination_input'
                      /\ destinations' = destinations
                      /\ "Please enter a destination." \in messages'
       /\ CancelAdd =>
             /\ show_add_destination_input /\ ~show_add_destination_input'
             /\ destinations' = destinations]_vars

\* The same for every run of the whole session.
C9_TwoStateFormNonEmptyAllRuns ==
    [][/\ ClickAddDestination =>
             ~show_add_destination_input /\ show_add_destination_input'
       /\ \A name \in DestInputs :
             ConfirmAdd(name) =>
                /\ show_add_destination_input
                /\ name # "" =>
                      /\ ~show_add_destination_input'
                      /\ destinations' = Append(destinations, name)
                /\ name = "" =>
                      /\ show_add_destination_input'
                      /\ destinations' = destinations
                      /\ "Please enter a destination." \in messages'
       /\ CancelAdd =>
             /\ show_add_destination_input /\ ~show_add_destination_input'
             /\ destinations' = destinations]_vars

\* "Add" was pressed with an empty field after two different waypoints had
\* been added.
C9_Witness ==
    /\ "Please enter a destination." \in messages
    /\ show_add_destination_input
    /\ Len(destinations) >= 2
    /\ destinations[1] # destinations[2]

\* The coordinate a saved place name stands for.
CoordOfPlace(place) ==
    CASE place = "Start" -> StartLonLat
      [] place = "End"   -> EndLonLat
      [] OTHER           -> <<Nominatim(place)[2], Nominatim(place)[1]>>

\* C10: while routes are stored, the saved place names and the saved
\* coordinates have the same length (at least 2) and belong together, so every
\* marker of create_map is labelled with its own place name.
C10_PlacesMatchCoords ==
    routes # <<>> =>
        /\ Len(all_coords) >= 2
        /\ Len(all_places) = Len(all_coords)
        /\ \A i \in 1..Len(all_coords) :
              /\ all_places[i] # ""
              /\ all_coords[i] = CoordOfPlace(all_places[i])

====
